---------------------------- MODULE Spec2Model ----------------------------
(***************************************************************************)
(* SonicWeave: the track list of src/App.tsx with its memoized merged      *)
(* buffer, the additive mixer and the WAV encoder of                       *)
(* src/services/audioUtils.ts.                                             *)
(*                                                                         *)
(* Numbers.  A sample is a rational n / SampleDen and is stored as its     *)
(* numerator n.  A time is a rational t / TimeDen seconds and is stored    *)
(* as its numerator t ("ticks"): one sample period is TicksPerSample       *)
(* ticks, so start times may fall between two samples.  All arithmetic is  *)
(* exact; floating-point rounding is not modelled.                         *)
(*                                                                         *)
(* An AudioBuffer is a record                                              *)
(*   [numberOfChannels, length, sampleRate, channels]                      *)
(* where channels[c + 1][f + 1] is channel c at frame f (the source counts *)
(* from 0, sequences from 1).  A DataView over an ArrayBuffer is a         *)
(* sequence of bytes: byte offset k is element k + 1.                      *)
(***************************************************************************)
EXTENDS Integers, Sequences, FiniteSets, TLC

\* src/services/audioUtils.ts:4
SAMPLE_RATE == 44100

\* Resolution of the sample grid: samples are multiples of 1 / SampleDen.
SampleDen == 4

\* Resolution of the time grid: a sample period is TicksPerSample ticks.
TicksPerSample == 2

\* Ticks per second.
TimeDen == SAMPLE_RATE * TicksPerSample

\* Encoder inputs: at most MaxChannels channels, MaxFrames frames and
\* MaxSamples samples in all.
MaxChannels == 3
MaxFrames == 3
MaxSamples == 4

\* null, for references that otherwise hold a record.
NULL == [null |-> TRUE]

\* lastPrepare before any call of prepareMergedAudio.
NoCall == [called |-> FALSE]

---------------------------------------------------------------------------
(* Arithmetic of the source's Math.* calls and integer conversions.        *)

Max(a, b) == IF a >= b THEN a ELSE b
Min(a, b) == IF a <= b THEN a ELSE b

\* Math.floor(n / d) and Math.ceil(n / d) for d > 0.
FloorDiv(n, d) == n \div d
CeilDiv(n, d) == -((-n) \div d)

\* (n / d) | 0 for d > 0 and a quotient within 32 bits: truncation toward 0.
TruncDiv(n, d) == IF n >= 0 THEN n \div d ELSE -((-n) \div d)

\* The k-th little-endian byte of the two's-complement representation of
\* data (what DataView keeps of a number: the low bytes).
ByteOf(data, k) ==
  LET Shift[j \in 0..3] == IF j = 0 THEN data ELSE Shift[j - 1] \div 256
  IN  Shift[k] % 256

Zeros(n) == [k \in 1..n |-> 0]

---------------------------------------------------------------------------
(* DataView over the ArrayBuffer of audioBufferToWav.  A writer state is a *)
(* record [view, offset, thrown]; thrown records the RangeError DataView   *)
(* raises for a write that does not fit.                                   *)

\* The same write without the littleEndian flag: most significant byte first.
DataViewSetBigEndian(v, byteOffset, data, width) ==
  [k \in 1..Len(v) |->
     IF k - 1 >= byteOffset /\ k - 1 < byteOffset + width
     THEN ByteOf(data, width - 1 - (k - 1 - byteOffset))
     ELSE v[k]]

\* DataView.prototype.setUint16/setUint32/setInt16(byteOffset, data, true).
DataViewSet(v, byteOffset, data, width) ==
  [k \in 1..Len(v) |->
     IF k - 1 >= byteOffset /\ k - 1 < byteOffset + width
     THEN ByteOf(data, k - 1 - byteOffset)
     ELSE v[k]]

Fits(v, byteOffset, width) == byteOffset >= 0 /\ byteOffset + width <= Len(v)

\* function setUint16(data) { view.setUint16(offset, data, true); offset += 2 }
setUint16(w, data) ==
  IF w.thrown THEN w
  ELSE IF ~Fits(w.view, w.offset, 2) THEN [w EXCEPT !.thrown = TRUE]
  ELSE [w EXCEPT !.view = DataViewSet(w.view, w.offset, data, 2),
                 !.offset = w.offset + 2]

\* function setUint32(data) { view.setUint32(offset, data, true); offset += 4 }
setUint32(w, data) ==
  IF w.thrown THEN w
  ELSE IF ~Fits(w.view, w.offset, 4) THEN [w EXCEPT !.thrown = TRUE]
  ELSE [w EXCEPT !.view = DataViewSet(w.view, w.offset, data, 4),
                 !.offset = w.offset + 4]

\* view.setInt16(offset, sample, true); offset += 2
setInt16(w, data) ==
  IF w.thrown THEN w
  ELSE IF ~Fits(w.view, w.offset, 2) THEN [w EXCEPT !.thrown = TRUE]
  ELSE [w EXCEPT !.view = DataViewSet(w.view, w.offset, data, 2),
                 !.offset = w.offset + 2]

---------------------------------------------------------------------------
(* audioBufferToWav                                                        *)

\* The length of a mono file whatever the channel count.
WavLengthMono(buffer) == buffer.length * 2 + 44

\* const length = buffer.length * numOfChan * 2 + 44
WavLength(buffer) == buffer.length * buffer.numberOfChannels * 2 + 44

\* new ArrayBuffer(length); new DataView(bufferArr); offset = 0
WavAlloc(buffer) ==
  [view |-> Zeros(WavLength(buffer)), offset |-> 0, thrown |-> FALSE]

\* The chunk-length argument: length - pos - 4, where pos is the frame
\* counter, still 0 while the header is written.
DataChunkLength(buffer, pos) == WavLength(buffer) - pos - 4

\* The header writes, in order.
WriteHeader(w0, buffer, pos) ==
  LET numOfChan == buffer.numberOfChannels
      length == WavLength(buffer)
      w1  == setUint32(w0, 1179011410)                  \* 0x46464952 "RIFF"
      w2  == setUint32(w1, length - 8)
      w3  == setUint32(w2, 1163280727)                  \* 0x45564157 "WAVE"
      w4  == setUint32(w3, 544501094)                   \* 0x20746d66 "fmt "
      w5  == setUint32(w4, 16)
      w6  == setUint16(w5, 1)
      w7  == setUint16(w6, numOfChan)
      w8  == setUint32(w7, buffer.sampleRate)
      w9  == setUint32(w8, buffer.sampleRate * 2 * numOfChan)
      w10 == setUint16(w9, numOfChan * 2)
      w11 == setUint16(w10, 16)
      w12 == setUint32(w11, 1635017060)                 \* 0x61746164 "data"
      w13 == setUint32(w12, DataChunkLength(buffer, pos))
  IN  w13

\* No clamping.
ClampNone(n) == n

\* Math.max(-1, Math.min(1, sample)) on the numerator.
Clamp(n) == Max(-SampleDen, Min(SampleDen, n))

\* (0.5 + sample < 0 ? sample * 32768 : sample * 32767) | 0
\* 0.5 + n / SampleDen < 0 is SampleDen + 2 * n < 0.
Scale(n) ==
  IF SampleDen + 2 * n < 0
  THEN TruncDiv(n * 32768, SampleDen)
  ELSE TruncDiv(n * 32767, SampleDen)

\* Lines 101-102: the 16-bit integer handed to setInt16.
EncodeSample(n) == Scale(Clamp(n))

\* The inner loop reading frame 0 at every pass.
WriteSampleFrame0(w, buffer, pos, i) ==
  setInt16(w, EncodeSample(buffer.channels[i + 1][1]))

\* One pass of the inner loop: channel i of frame pos.
WriteSample(w, buffer, pos, i) ==
  setInt16(w, EncodeSample(buffer.channels[i + 1][pos + 1]))

---------------------------------------------------------------------------
(* Web Audio buffers                                                       *)

\* context.createBuffer(numberOfChannels, length, sampleRate): silence.
CreateBuffer(numberOfChannels, length, sampleRate) ==
  [numberOfChannels |-> numberOfChannels,
   length |-> length,
   sampleRate |-> sampleRate,
   channels |-> [c \in 1..numberOfChannels |-> Zeros(length)]]

\* AudioBuffer.duration = length / sampleRate, in ticks.
BufferDuration(buffer) == (buffer.length * TimeDen) \div buffer.sampleRate

\* A decoded clip: decodeAudioData renders at the context's rate, SAMPLE_RATE.
Clip(chans) ==
  [numberOfChannels |-> Len(chans),
   length |-> Len(chans[1]),
   sampleRate |-> SAMPLE_RATE,
   channels |-> chans]

---------------------------------------------------------------------------
(* mixAudioTracks.  A track is [id, buffer, duration, startTime]; the      *)
(* file, fileName and color fields of AudioTrack are display data and are  *)
(* left out.                                                               *)

\* The reduce taking the longest clip, start times left out.
RECURSIVE TotalDurationNoStart(_)
TotalDurationNoStart(tracks) ==
  IF tracks = << >> THEN 0
  ELSE LET n == Len(tracks)
       IN  Max(TotalDurationNoStart(SubSeq(tracks, 1, n - 1)), tracks[n].duration)

\* tracks.reduce((max, track) => Math.max(max, track.startTime + track.duration), 0)
RECURSIVE TotalDuration(_)
TotalDuration(tracks) ==
  IF tracks = << >> THEN 0
  ELSE LET n == Len(tracks)
       IN  Max(TotalDuration(SubSeq(tracks, 1, n - 1)),
               tracks[n].startTime + tracks[n].duration)

\* Math.ceil(totalDuration * SAMPLE_RATE)
OutputLength(tracks) == CeilDiv(TotalDuration(tracks) * SAMPLE_RATE, TimeDen)

\* Math.floor(track.startTime * SAMPLE_RATE)
StartSample(track) == FloorDiv(track.startTime * SAMPLE_RATE, TimeDen)

\* channel < track.buffer.numberOfChannels ? channel : 0
SourceChannel(track, channel) ==
  IF channel < track.buffer.numberOfChannels THEN channel ELSE 0

\* Assignment in place of +=.
AddAtAssign(outputData, index, value) ==
  IF index >= 0 /\ index < Len(outputData)
  THEN [outputData EXCEPT ![index + 1] = value]
  ELSE outputData

\* outputData[index] += value on a Float32Array: an index outside the array
\* stores nothing.
AddAt(outputData, index, value) ==
  IF index >= 0 /\ index < Len(outputData)
  THEN [outputData EXCEPT ![index + 1] = @ + value]
  ELSE outputData

\* for (let i = 0; i < trackChannelData.length; i++)
\*   if (startSample + i < outputData.length) outputData[startSample + i] += trackChannelData[i]
RECURSIVE MixSamples(_, _, _, _)
MixSamples(outputData, trackChannelData, startSample, i) ==
  IF i >= Len(trackChannelData) THEN outputData
  ELSE MixSamples(
         IF startSample + i < Len(outputData)
         THEN AddAt(outputData, startSample + i, trackChannelData[i + 1])
         ELSE outputData,
         trackChannelData, startSample, i + 1)

\* The body of "for (const track of tracks)": both output channels.
MixTrack(outputBuffer, track) ==
  [outputBuffer EXCEPT !.channels =
     [c \in 1..outputBuffer.numberOfChannels |->
        MixSamples(outputBuffer.channels[c],
                   track.buffer.channels[SourceChannel(track, c - 1) + 1],
                   StartSample(track), 0)]]

RECURSIVE MixTracks(_, _, _)
MixTracks(outputBuffer, tracks, k) ==
  IF k > Len(tracks) THEN outputBuffer
  ELSE MixTracks(MixTrack(outputBuffer, tracks[k]), tracks, k + 1)

\* A mono second of silence.
EmptyMixMono == CreateBuffer(1, SAMPLE_RATE, SAMPLE_RATE)

\* if (tracks.length === 0) return context.createBuffer(2, SAMPLE_RATE, SAMPLE_RATE)
EmptyMix == CreateBuffer(2, SAMPLE_RATE, SAMPLE_RATE)

mixAudioTracks(tracks) ==
  IF Len(tracks) = 0 THEN EmptyMix
  ELSE MixTracks(CreateBuffer(2, OutputLength(tracks), SAMPLE_RATE), tracks, 1)

---------------------------------------------------------------------------
(* State                                                                   *)

VARIABLES
  \* src/App.tsx
  tracks,            \* useState<AudioTrack[]>
  playbackState,     \* useState<PlaybackState>
  processingState,   \* useState<ProcessingState>, with the upload in flight
  sourceNodeRef,     \* the playing AudioBufferSourceNode: NULL or [buffer]
  pauseTimeRef,      \* play position kept across pause, in ticks
  mergedBufferRef,   \* the memoized mix: NULL or an AudioBuffer
  mergedFrom,        \* history: the track list mergedBufferRef was mixed from
  lastPrepare,       \* history: what the latest prepareMergedAudio call returned
  lastExport,        \* the bytes of the latest exported Blob
  \* one call of audioBufferToWav, statement by statement
  wavInput, view, offset, pos, chan, thrown, wavPc,
  \* one call of mixAudioTracks
  mixInput, mixOutput

appVars == <<tracks, playbackState, processingState, sourceNodeRef,
             pauseTimeRef, mergedBufferRef, mergedFrom, lastPrepare, lastExport>>
wavVars == <<wavInput, view, offset, pos, chan, thrown, wavPc>>
mixVars == <<mixInput, mixOutput>>
vars == <<appVars, wavVars, mixVars>>

\* The component after mount: no tracks, nothing playing, nothing memoized.
AppInit ==
  /\ tracks = << >>
  /\ playbackState = [isPlaying |-> FALSE, currentTime |-> 0, totalDuration |-> 0]
  /\ processingState = [isProcessing |-> FALSE, upload |-> NULL]
  /\ sourceNodeRef = NULL
  /\ pauseTimeRef = 0
  /\ mergedBufferRef = NULL
  /\ mergedFrom = << >>
  /\ lastPrepare = NoCall
  /\ lastExport = NULL

WavIdle ==
  /\ wavInput = NULL
  /\ view = << >>
  /\ offset = 0
  /\ pos = 0
  /\ chan = 0
  /\ thrown = FALSE
  /\ wavPc = "idle"

MixIdle ==
  /\ mixInput = << >>
  /\ mixOutput = NULL

---------------------------------------------------------------------------
(* audioBufferToWav, statement by statement, on every small buffer.        *)

\* Sample values -2, -1, the grid's neighbours of 0, 0, 1 and beyond 1.
SampleNums ==
  {-2 * SampleDen, -SampleDen, -1, 0, 1, SampleDen, SampleDen + 2}

SampleRates == {SAMPLE_RATE, 48000}

\* Any buffer within the bounds.
WavInit ==
  /\ \E c \in 1..MaxChannels, f \in 0..MaxFrames, r \in SampleRates :
       /\ c * f <= MaxSamples
       /\ \E ch \in [1..c -> [1..f -> SampleNums]] :
            wavInput = [numberOfChannels |-> c, length |-> f,
                        sampleRate |-> r, channels |-> ch]
  /\ view = << >>
  /\ offset = 0
  /\ pos = 0
  /\ chan = 0
  /\ thrown = FALSE
  /\ wavPc = "call"

Writer == [view |-> view, offset |-> offset, thrown |-> thrown]

SetWriter(w) ==
  /\ view' = w.view
  /\ offset' = w.offset
  /\ thrown' = w.thrown

\* Lines 67-75: the allocation.
WavAllocate ==
  /\ wavPc = "call"
  /\ SetWriter(WavAlloc(wavInput))
  /\ pos' = 0
  /\ wavPc' = "header"
  /\ UNCHANGED <<wavInput, chan>>
  /\ UNCHANGED <<appVars, mixVars>>

\* Lines 77-92: the header.
WavHeader ==
  /\ wavPc = "header"
  /\ LET w == WriteHeader(Writer, wavInput, pos)
     IN  /\ SetWriter(w)
         /\ wavPc' = IF w.thrown THEN "threw" ELSE "while"
  /\ UNCHANGED <<wavInput, pos, chan>>
  /\ UNCHANGED <<appVars, mixVars>>

\* Line 98: while (pos < buffer.length); line 109 when it fails.
WavWhile ==
  /\ wavPc = "while"
  /\ IF pos < wavInput.length
     THEN /\ chan' = 0
          /\ wavPc' = "for"
     ELSE /\ chan' = chan
          /\ wavPc' = "done"
  /\ UNCHANGED <<wavInput, view, offset, pos, thrown>>
  /\ UNCHANGED <<appVars, mixVars>>

\* Lines 99-105: one pass of the for loop.
WavFor ==
  /\ wavPc = "for"
  /\ chan < wavInput.numberOfChannels
  /\ LET w == WriteSample(Writer, wavInput, pos, chan)
     IN  /\ SetWriter(w)
         /\ wavPc' = IF w.thrown THEN "threw" ELSE "for"
  /\ chan' = chan + 1
  /\ UNCHANGED <<wavInput, pos>>
  /\ UNCHANGED <<appVars, mixVars>>

\* Line 106: pos++ after the for loop.
WavNextFrame ==
  /\ wavPc = "for"
  /\ chan >= wavInput.numberOfChannels
  /\ pos' = pos + 1
  /\ wavPc' = "while"
  /\ UNCHANGED <<wavInput, view, offset, chan, thrown>>
  /\ UNCHANGED <<appVars, mixVars>>

WavNext ==
  \/ WavAllocate
  \/ WavHeader
  \/ WavWhile
  \/ WavFor
  \/ WavNextFrame

InitWav == AppInit /\ MixIdle /\ WavInit

SpecWav == InitWav /\ [][WavNext]_vars

\* The same statements run to the end: the returned Blob, or the RangeError
\* of a write that did not fit.
RECURSIVE WavLoop(_, _, _, _)
WavLoop(w, buffer, p, i) ==
  IF w.thrown THEN w
  ELSE IF p >= buffer.length THEN w
  ELSE IF i < buffer.numberOfChannels
       THEN WavLoop(WriteSample(w, buffer, p, i), buffer, p, i + 1)
       ELSE WavLoop(w, buffer, p + 1, 0)

audioBufferToWav(buffer) ==
  LET w == WavLoop(WriteHeader(WavAlloc(buffer), buffer, 0), buffer, 0, 0)
  IN  IF w.thrown THEN [error |-> "RangeError"]
      ELSE [type |-> "audio/wav", bytes |-> w.view]

---------------------------------------------------------------------------
(* mixAudioTracks on every small track list.                               *)

MaxMixTracks == 2
MaxStart == 4

\* Decoded clips: mono and stereo, one and two frames, and one with a
\* third channel.  0.5 is 2 / SampleDen when SampleDen = 4.
ClipBuffers ==
  { Clip(<< <<2>> >>),
    Clip(<< <<2, -3>> >>),
    Clip(<< <<1, 4>>, <<-2, 3>> >>),
    Clip(<< <<1>>, <<2>>, <<-4>> >>) }

\* A track as handleFileUpload builds it: duration is the buffer's.
NewTrack(id, buffer, startTime) ==
  [id |-> id, buffer |-> buffer, duration |-> BufferDuration(buffer),
   startTime |-> startTime]

MixTrackLists ==
  UNION { [1..n -> { NewTrack(1, b, t) : b \in ClipBuffers, t \in 0..MaxStart }] :
          n \in 0..MaxMixTracks }

MixInit ==
  /\ mixInput \in MixTrackLists
  /\ mixOutput = NULL

MixCall ==
  /\ mixOutput = NULL
  /\ mixOutput' = mixAudioTracks(mixInput)
  /\ UNCHANGED <<mixInput, appVars, wavVars>>

MixNext == MixCall

InitMix == AppInit /\ WavIdle /\ MixInit

SpecMix == InitMix /\ [][MixNext]_vars

---------------------------------------------------------------------------
(* Reading a WAV file back.                                                *)

\* Little-endian fields of a byte sequence at a byte offset.
ReadUint16(v, at) == v[at + 1] + 256 * v[at + 2]
ReadUint32(v, at) == ReadUint16(v, at) + 65536 * ReadUint16(v, at + 2)
ReadInt16(v, at) ==
  IF ReadUint16(v, at) >= 32768 THEN ReadUint16(v, at) - 65536
  ELSE ReadUint16(v, at)

WavC == wavInput.numberOfChannels
WavF == wavInput.length
WavSampleAt(c, f) == wavInput.channels[c + 1][f + 1]

\* The frames and channels the loop has written so far.
Written(c, f) ==
  \/ wavPc = "done"
  \/ wavPc \in {"while", "for"} /\ f < pos
  \/ wavPc = "for" /\ f = pos /\ c < chan

---------------------------------------------------------------------------
(* Claims about audioBufferToWav (specification SpecWav).                  *)

\* C3: the data-chunk length field, the little-endian 32-bit value at byte
\* offset 40 of the finished file, equals channels * frames * 2.
C3_DataChunkLengthField ==
  wavPc = "done" => ReadUint32(view, 40) = WavC * WavF * 2

\* What the code writes there instead: the whole length less 4.
C3_CodeWrites ==
  wavPc = "done" => ReadUint32(view, 40) = WavC * WavF * 2 + 40

\* The scaling the claim states: clamp, then 32768 for a value that is
\* negative or zero and 32767 for a positive one, truncated toward zero.
StatedEncoding(n) ==
  LET s == IF n < -SampleDen THEN -SampleDen
           ELSE IF n > SampleDen THEN SampleDen ELSE n
      scaled == IF s <= 0 THEN s * 32768 ELSE s * 32767
  IN  IF scaled >= 0 THEN scaled \div SampleDen
      ELSE -((-scaled) \div SampleDen)

\* C4: every sample written is the 16-bit integer of the stated scaling:
\* clamped to [-1, 1], times 32768 when negative or zero, times 32767 when
\* positive, truncated toward zero.
C4_StatedScaling ==
  \A c \in 0..(WavC - 1), f \in 0..(WavF - 1) :
     Written(c, f) =>
       ReadInt16(view, 44 + (f * WavC + c) * 2) = StatedEncoding(WavSampleAt(c, f))

\* C5: a sample >= 1 is written as 32767 and a sample <= -1 as -32768, as
\* exactly 1 and exactly -1 are, and the integer handed to the 16-bit write
\* is within [-32768, 32767] for every sample.
C5_ClampedAtEncode ==
  \A c \in 0..(WavC - 1), f \in 0..(WavF - 1) :
     LET n == WavSampleAt(c, f)
         e == EncodeSample(n)
     IN  /\ e >= -32768 /\ e <= 32767
         /\ n >= SampleDen => e = 32767 /\ e = EncodeSample(SampleDen)
         /\ n <= -SampleDen => e = -32768 /\ e = EncodeSample(-SampleDen)
         /\ Written(c, f) =>
              /\ n >= SampleDen => ReadInt16(view, 44 + (f * WavC + c) * 2) = 32767
              /\ n <= -SampleDen => ReadInt16(view, 44 + (f * WavC + c) * 2) = -32768

C5_Witness ==
  /\ wavPc = "done"
  /\ \E c \in 0..(WavC - 1), f \in 0..(WavF - 1) : WavSampleAt(c, f) > SampleDen
  /\ \E c \in 0..(WavC - 1), f \in 0..(WavF - 1) : WavSampleAt(c, f) < -SampleDen

\* C8: the file is channels * frames * 2 + 44 bytes; the header fills bytes
\* 0..43 and leaves the cursor at 44; each sample advances it by 2; it ends
\* at the total length; no write falls outside the file; with no frames the
\* file is the header alone.
C8_LengthAndCursor ==
  /\ ~thrown /\ wavPc # "threw"
  /\ wavPc \in {"header", "while", "for", "done"} =>
       Len(view) = WavC * WavF * 2 + 44
  /\ wavPc = "header" => offset = 0
  /\ wavPc = "while" /\ pos = 0 =>
       /\ offset = 44
       /\ \A k \in 44..(Len(view) - 1) : view[k + 1] = 0
  /\ wavPc = "while" => offset = 44 + pos * WavC * 2
  /\ wavPc = "for" => offset = 44 + (pos * WavC + chan) * 2
  /\ wavPc \in {"while", "for"} => offset <= Len(view)
  /\ wavPc = "done" =>
       /\ offset = Len(view)
       /\ pos = WavF
       /\ WavF = 0 => Len(view) = 44

C8_Witness ==
  /\ wavPc = "done"
  /\ WavC >= 2
  /\ WavF >= 2
  /\ offset = WavC * WavF * 2 + 44

\* C9: once the header is written its fields read back, little-endian at
\* their offsets, as: RIFF size = total length - 8, format-chunk length 16,
\* format code 1, the channel count, the sample rate, byte rate = rate * 2 *
\* channels, block align = channels * 2, 16 bits per sample.
C9_HeaderReadsBack ==
  wavPc \in {"while", "for", "done"} =>
    /\ ReadUint32(view, 4) = Len(view) - 8
    /\ ReadUint32(view, 4) = WavC * WavF * 2 + 36
    /\ ReadUint32(view, 16) = 16
    /\ ReadUint16(view, 20) = 1
    /\ ReadUint16(view, 22) = WavC
    /\ ReadUint32(view, 24) = wavInput.sampleRate
    /\ ReadUint32(view, 28) = wavInput.sampleRate * 2 * WavC
    /\ ReadUint16(view, 32) = WavC * 2
    /\ ReadUint16(view, 34) = 16

C9_Witness ==
  /\ wavPc = "done"
  /\ WavC = 2
  /\ WavF = 2
  /\ wavInput.sampleRate = 48000
  /\ ReadUint32(view, 24) = 48000

\* C10: channel c of frame f is the signed little-endian 16-bit integer at
\* byte offset 44 + (f * channels + c) * 2: frame-major, channel-minor.
C10_FrameMajor ==
  \A c \in 0..(WavC - 1), f \in 0..(WavF - 1) :
     Written(c, f) =>
       ReadInt16(view, 44 + (f * WavC + c) * 2) = EncodeSample(WavSampleAt(c, f))

C10_Witness ==
  /\ wavPc = "done"
  /\ WavC = 2
  /\ WavF = 2
  /\ Cardinality({ WavSampleAt(c, f) : c \in 0..1, f \in 0..1 }) = 4

---------------------------------------------------------------------------
(* The reference mix, stated without the code's loops.                     *)

\* The end of the track reaching furthest, in ticks.
RefEnd(ts) ==
  LET ends == { ts[k].startTime + ts[k].duration : k \in 1..Len(ts) }
  IN  CHOOSE e \in ends : \A x \in ends : x <= e

\* ceil(seconds * rate) and floor(seconds * rate) of a time in ticks, as the
\* integers they are defined to be.
RefCeil(t) ==
  CHOOSE n \in 0..(t + 1) :
    /\ n * TimeDen >= t * SAMPLE_RATE
    /\ (n - 1) * TimeDen < t * SAMPLE_RATE
RefFloor(t) ==
  CHOOSE n \in 0..(t + 1) :
    /\ n * TimeDen <= t * SAMPLE_RATE
    /\ (n + 1) * TimeDen > t * SAMPLE_RATE

\* What track t puts at output index j of output channel c: its channel c,
\* or channel 0 when it has no channel c, at source index j - floor(start).
RefContribution(t, c, j) ==
  LET src == IF t.buffer.numberOfChannels > c THEN c ELSE 0
      i == j - RefFloor(t.startTime)
  IN  IF i >= 0 /\ i < t.buffer.length THEN t.buffer.channels[src + 1][i + 1]
      ELSE 0

RECURSIVE RefSum(_, _, _, _)
RefSum(ts, c, j, k) ==
  IF k = 0 THEN 0
  ELSE RefSum(ts, c, j, k - 1) + RefContribution(ts[k], c, j)

---------------------------------------------------------------------------
(* Claims about mixAudioTracks (specification SpecMix).                    *)

\* C6: for a non-empty track list the result has exactly 2 channels of
\* ceil(max(startTime + duration) * rate) frames; sample [c][j] is the sum
\* over the tracks of the source sample that falls on j (channel c, or
\* channel 0 of a clip without channel c); nothing of a track lies before
\* floor(startTime * rate).
C6_MixIsReference ==
  mixOutput # NULL /\ Len(mixInput) > 0 =>
    /\ mixOutput.numberOfChannels = 2
    /\ DOMAIN mixOutput.channels = 1..2
    /\ mixOutput.sampleRate = SAMPLE_RATE
    /\ mixOutput.length = RefCeil(RefEnd(mixInput))
    /\ \A c \in 0..1 :
         /\ Len(mixOutput.channels[c + 1]) = mixOutput.length
         /\ \A j \in 0..(mixOutput.length - 1) :
              mixOutput.channels[c + 1][j + 1] = RefSum(mixInput, c, j, Len(mixInput))
    /\ Len(mixInput) = 1 =>
         \A c \in 0..1, j \in 0..(mixOutput.length - 1) :
            j < RefFloor(mixInput[1].startTime) => mixOutput.channels[c + 1][j + 1] = 0

\* Two clips overlap, one of them mono and one starting between two samples,
\* and some output sample is the sum of two non-zero source samples.
C6_Witness ==
  /\ mixOutput # NULL
  /\ Len(mixInput) = 2
  /\ mixInput[1].buffer.numberOfChannels = 1
  /\ mixInput[2].buffer.numberOfChannels = 2
  /\ mixInput[2].startTime % TicksPerSample # 0
  /\ \E j \in 0..(mixOutput.length - 1) :
       /\ RefContribution(mixInput[1], 1, j) # 0
       /\ RefContribution(mixInput[2], 1, j) # 0
       /\ mixOutput.channels[2][j + 1] =
            RefContribution(mixInput[1], 1, j) + RefContribution(mixInput[2], 1, j)

\* C7: the mix of the empty track list is a buffer, not an error, of exactly
\* 2 channels and SAMPLE_RATE frames (one second) of zeros.
C7_EmptyMixIsSilence ==
  mixOutput # NULL /\ Len(mixInput) = 0 =>
    /\ mixOutput.numberOfChannels = 2
    /\ DOMAIN mixOutput.channels = 1..2
    /\ mixOutput.sampleRate = SAMPLE_RATE
    /\ mixOutput.length = SAMPLE_RATE
    /\ \A c \in 1..2 :
         /\ Len(mixOutput.channels[c]) = SAMPLE_RATE
         /\ \A j \in 1..SAMPLE_RATE : mixOutput.channels[c][j] = 0

C7_Witness ==
  /\ mixOutput # NULL
  /\ Len(mixInput) = 0
  /\ mixOutput.length = SAMPLE_RATE

---------------------------------------------------------------------------
(* src/App.tsx.  Every handler is one step: React renders and runs the     *)
(* [tracks] effect after a handler's setTracks and before the next handler *)
(* runs, so the effect belongs to the step that changed the track list.    *)
(* The AudioContext exists from mount on (audioContextRef is never null    *)
(* in a handler).  A frame of the progress loop is pending exactly while   *)
(* isPlaying holds, so animationFrameRef is not kept.                      *)

\* At most MaxTracks tracks on the timeline.
MaxTracks == 2

\* The files a user picks in one upload, as the clips they decode to.
MonoClip == Clip(<< <<2>> >>)
StereoClip == Clip(<< <<1, 4>>, <<-2, 3>> >>)
FileLists == { <<MonoClip>>, <<StereoClip>>, <<MonoClip, StereoClip>> }

\* Values typed into a start-time field, in ticks: a negative one and one
\* between two samples.
NewTimes == {-1, 1}

\* Readings of ctx.currentTime - startTimeRef.current, in ticks: inside the
\* shortest mix and beyond the longest.
Readings == {1, 99}

\* Math.random().toString(36).substr(2, 9): an id no live track has.
FreshId(used) == CHOOSE n \in 1..(Cardinality(used) + 1) : n \notin used

\* The effect invalidating nothing.
InvalidateNever(merged, newTracks) == merged

\* useEffect(..., [tracks]), lines 39-49: mergedBufferRef after the effect.
\* With no tracks left it returns before the invalidation.
InvalidateMerged(merged, newTracks) ==
  IF Len(newTracks) = 0 THEN merged ELSE NULL

\* The same effect: playbackState after it.
EffectPlayback(ps, newTracks) ==
  IF Len(newTracks) = 0 THEN [ps EXCEPT !.totalDuration = 0]
  ELSE [ps EXCEPT !.totalDuration = TotalDuration(newTracks)]

\* setTracks(newTracks) with playbackState already set to ps by the handler,
\* followed by the render and the effect.
SetTracks(newTracks, ps) ==
  /\ tracks' = newTracks
  /\ playbackState' = EffectPlayback(ps, newTracks)
  /\ mergedBufferRef' = InvalidateMerged(mergedBufferRef, newTracks)
  /\ mergedFrom' = IF InvalidateMerged(mergedBufferRef, newTracks) = NULL
                   THEN << >> ELSE mergedFrom

\* stopAudio, lines 186-196: the playbackState it sets.
Stopped(ps) == [ps EXCEPT !.isPlaying = FALSE, !.currentTime = 0]

\* prepareMergedAudio, lines 110-117: the buffer it returns.
PrepareMergedAudio ==
  IF Len(tracks) = 0 THEN NULL
  ELSE IF mergedBufferRef = NULL THEN mixAudioTracks(tracks)
  ELSE mergedBufferRef

\* The memo after the call.
Memoize ==
  /\ mergedBufferRef' = IF Len(tracks) = 0 THEN mergedBufferRef
                        ELSE PrepareMergedAudio
  /\ mergedFrom' = IF Len(tracks) # 0 /\ mergedBufferRef = NULL THEN tracks
                   ELSE mergedFrom

\* prev.filter(t => t.id !== id)
WithoutId(seq, id) ==
  LET F[k \in 0..Len(seq)] ==
        IF k = 0 THEN << >>
        ELSE IF seq[k].id # id THEN Append(F[k - 1], seq[k]) ELSE F[k - 1]
  IN  F[Len(seq)]

\* The map without Math.max(0, ...).
WithStartTimeUnclamped(seq, id, newTime) ==
  [j \in 1..Len(seq) |->
     IF seq[j].id = id THEN [seq[j] EXCEPT !.startTime = newTime]
     ELSE seq[j]]

\* prev.map(t => t.id === id ? { ...t, startTime: Math.max(0, newTime) } : t)
WithStartTime(seq, id, newTime) ==
  [j \in 1..Len(seq) |->
     IF seq[j].id = id THEN [seq[j] EXCEPT !.startTime = Max(0, newTime)]
     ELSE seq[j]]

\* Lines 68-72, on the tracks the handler closed over.
DefaultStartTime(closed) ==
  IF Len(closed) > 0
  THEN closed[Len(closed)].startTime + closed[Len(closed)].duration
  ELSE 0

\* handleFileUpload up to its first await: the file input is reachable only
\* while the processing overlay is down.  The bounds keep the timeline
\* within MaxTracks tracks and the new tracks' start within MaxStart.
UploadStart ==
  /\ ~processingState.isProcessing
  /\ DefaultStartTime(tracks) <= MaxStart
  /\ \E files \in FileLists :
       /\ Len(tracks) + Len(files) <= MaxTracks
       /\ processingState' =
            [isProcessing |-> TRUE,
             upload |-> [files |-> files, tracks |-> tracks]]
  /\ lastPrepare' = NoCall
  /\ lastExport' = NULL
  /\ UNCHANGED <<tracks, playbackState, sourceNodeRef, pauseTimeRef,
                 mergedBufferRef, mergedFrom>>
  /\ UNCHANGED <<wavVars, mixVars>>

\* Lines 58-83: the tracks built from the decoded files.
RECURSIVE NewTracks(_, _, _)
NewTracks(files, closed, used) ==
  IF files = << >> THEN << >>
  ELSE LET id == FreshId(used)
       IN  <<NewTrack(id, Head(files), DefaultStartTime(closed))>>
             \o NewTracks(Tail(files), closed, used \cup {id})

\* Every file decoded: setTracks(prev => [...prev, ...newTracks]) and the
\* finally block.
UploadDone ==
  /\ processingState.isProcessing
  /\ LET up == processingState.upload
         used == { tracks[k].id : k \in 1..Len(tracks) }
     IN  /\ Len(tracks) + Len(up.files) <= MaxTracks
         /\ SetTracks(tracks \o NewTracks(up.files, up.tracks, used), playbackState)
  /\ processingState' = [isProcessing |-> FALSE, upload |-> NULL]
  /\ lastPrepare' = NoCall
  /\ lastExport' = NULL
  /\ UNCHANGED <<sourceNodeRef, pauseTimeRef>>
  /\ UNCHANGED <<wavVars, mixVars>>

\* decodeAudioFile rejected: the catch and the finally block.
UploadFail ==
  /\ processingState.isProcessing
  /\ processingState' = [isProcessing |-> FALSE, upload |-> NULL]
  /\ lastPrepare' = NoCall
  /\ lastExport' = NULL
  /\ UNCHANGED <<tracks, playbackState, sourceNodeRef, pauseTimeRef,
                 mergedBufferRef, mergedFrom>>
  /\ UNCHANGED <<wavVars, mixVars>>

\* removeTrack(id), lines 96-99.
RemoveTrack ==
  /\ \E k \in 1..Len(tracks) :
       SetTracks(WithoutId(tracks, tracks[k].id), Stopped(playbackState))
  /\ sourceNodeRef' = NULL
  /\ pauseTimeRef' = 0
  /\ lastPrepare' = NoCall
  /\ lastExport' = NULL
  /\ UNCHANGED processingState
  /\ UNCHANGED <<wavVars, mixVars>>

\* updateTrackStartTime(id, newTime), lines 101-108.
UpdateTrackStartTime ==
  /\ \E k \in 1..Len(tracks), newTime \in NewTimes :
       SetTracks(WithStartTime(tracks, tracks[k].id, newTime),
                 IF playbackState.isPlaying
                 THEN Stopped(playbackState) ELSE playbackState)
  /\ sourceNodeRef' = IF playbackState.isPlaying THEN NULL ELSE sourceNodeRef
  /\ pauseTimeRef' = IF playbackState.isPlaying THEN 0 ELSE pauseTimeRef
  /\ lastPrepare' = NoCall
  /\ lastExport' = NULL
  /\ UNCHANGED processingState
  /\ UNCHANGED <<wavVars, mixVars>>

\* togglePlayPause -> playAudio, lines 119-149.
PlayAudio ==
  /\ Len(tracks) # 0
  /\ ~playbackState.isPlaying
  /\ Memoize
  /\ lastPrepare' = PrepareMergedAudio
  /\ sourceNodeRef' =
       [buffer |-> PrepareMergedAudio,
        offset |-> pauseTimeRef % BufferDuration(PrepareMergedAudio)]
  /\ playbackState' = [playbackState EXCEPT !.isPlaying = TRUE]
  /\ lastExport' = NULL
  /\ UNCHANGED <<tracks, processingState, pauseTimeRef>>
  /\ UNCHANGED <<wavVars, mixVars>>

\* togglePlayPause -> pauseAudio, lines 172-184.
PauseAudio ==
  /\ Len(tracks) # 0
  /\ playbackState.isPlaying
  /\ sourceNodeRef' = NULL
  /\ \E reading \in Readings : pauseTimeRef' = reading
  /\ playbackState' = [playbackState EXCEPT !.isPlaying = FALSE]
  /\ lastPrepare' = NoCall
  /\ lastExport' = NULL
  /\ UNCHANGED <<tracks, processingState, mergedBufferRef, mergedFrom>>
  /\ UNCHANGED <<wavVars, mixVars>>

\* updateProgress, lines 152-163: a frame of the progress loop of the
\* buffer playAudio started.
UpdateProgress ==
  /\ playbackState.isPlaying
  /\ sourceNodeRef # NULL
  /\ \E current \in Readings :
       IF current >= BufferDuration(sourceNodeRef.buffer)
       THEN /\ sourceNodeRef' = NULL
            /\ pauseTimeRef' = 0
            /\ playbackState' = Stopped(playbackState)
       ELSE /\ playbackState' = [playbackState EXCEPT !.currentTime = current]
            /\ UNCHANGED <<sourceNodeRef, pauseTimeRef>>
  /\ lastPrepare' = NoCall
  /\ lastExport' = NULL
  /\ UNCHANGED <<tracks, processingState, mergedBufferRef, mergedFrom>>
  /\ UNCHANGED <<wavVars, mixVars>>

\* handleDownload, lines 198-211.
HandleDownload ==
  /\ Len(tracks) # 0
  /\ Memoize
  /\ lastPrepare' = PrepareMergedAudio
  /\ lastExport' = audioBufferToWav(PrepareMergedAudio)
  /\ UNCHANGED <<tracks, playbackState, processingState, sourceNodeRef,
                 pauseTimeRef>>
  /\ UNCHANGED <<wavVars, mixVars>>

Next ==
  \/ UploadStart
  \/ UploadDone
  \/ UploadFail
  \/ RemoveTrack
  \/ UpdateTrackStartTime
  \/ PlayAudio
  \/ PauseAudio
  \/ UpdateProgress
  \/ HandleDownload

Init == AppInit /\ WavIdle /\ MixIdle

Spec == Init /\ [][Next]_vars

---------------------------------------------------------------------------
(* Claims about the memoized merged buffer (specification Spec).           *)

\* C1: whatever track-list operations came before, a prepareMergedAudio call
\* that returns a buffer returns the mix of the track list as it is at that
\* call, and an export encodes that mix.
C1_NeverServedStale ==
  /\ lastPrepare # NoCall /\ lastPrepare # NULL =>
       lastPrepare = mixAudioTracks(tracks)
  /\ lastExport # NULL => lastExport = audioBufferToWav(mixAudioTracks(tracks))

\* A buffer was mixed and is still playing, an upload then changed the track
\* list, and the export that followed was served the mix of the new list.
C1_Witness ==
  /\ lastExport # NULL
  /\ lastPrepare = mixAudioTracks(tracks)
  /\ sourceNodeRef # NULL
  /\ sourceNodeRef.buffer # lastPrepare
  /\ Len(tracks) = 2

\* C2: in every state the memoized buffer, when there is one, was mixed from
\* the current track list: every change of the list, the removal of the last
\* track included, invalidates it in the same step.
C2_MemoIsOfCurrentTracks ==
  mergedBufferRef # NULL => mergedFrom = tracks

\* What the code keeps instead: the memo is of the current list or the list
\* is empty.
C2_CodeKeeps ==
  mergedBufferRef # NULL => mergedFrom = tracks \/ Len(tracks) = 0

---------------------------------------------------------------------------
(* Claims about playback and the track list (specification Spec).          *)

\* C11: whenever isPlaying is true the buffer of the playing source node is
\* the mix of the current track list, every change of the list during
\* playback (an upload appended, a track removed, a start time edited)
\* having stopped the player.
C11_PlayingBufferIsCurrentMix ==
  playbackState.isPlaying =>
    /\ sourceNodeRef # NULL
    /\ sourceNodeRef.buffer = mixAudioTracks(tracks)

\* What the code keeps instead: a removal, or a start-time edit during
\* playback, leaves the player stopped at position 0; an upload leaves it as
\* it was.
C11_CodeKeeps ==
  [][/\ RemoveTrack \/ (UpdateTrackStartTime /\ playbackState.isPlaying) =>
          /\ ~playbackState'.isPlaying
          /\ playbackState'.currentTime = 0
          /\ pauseTimeRef' = 0
          /\ sourceNodeRef' = NULL
     /\ UploadDone =>
          /\ playbackState'.isPlaying = playbackState.isPlaying
          /\ sourceNodeRef' = sourceNodeRef]_vars

\* C12: every track of every reachable track list has startTime >= 0.  An
\* upload appends tracks that start at 0 when the list its handler read was
\* empty and at the end of that list's last track otherwise; a start-time
\* edit leaves a start time of at least 0, changes only tracks with the
\* given id, and changes neither their buffer nor their duration.
C12_StartTimes ==
  [][/\ \A k \in 1..Len(tracks') : tracks'[k].startTime >= 0
     /\ UpdateTrackStartTime =>
          /\ Len(tracks') = Len(tracks)
          /\ \A j \in 1..Len(tracks) :
               /\ tracks'[j].id = tracks[j].id
               /\ tracks'[j].buffer = tracks[j].buffer
               /\ tracks'[j].duration = tracks[j].duration
          /\ \E k \in 1..Len(tracks) :
               \A j \in 1..Len(tracks) :
                  tracks[j].id # tracks[k].id => tracks'[j] = tracks[j]
     /\ UploadDone =>
          LET closed == processingState.upload.tracks
              n == Len(tracks)
          IN  /\ Len(tracks') > n
              /\ SubSeq(tracks', 1, n) = tracks
              /\ \A j \in (n + 1)..Len(tracks') :
                   /\ tracks'[j].duration = BufferDuration(tracks'[j].buffer)
                   /\ tracks'[j].startTime =
                        IF Len(closed) = 0 THEN 0
                        ELSE closed[Len(closed)].startTime
                               + closed[Len(closed)].duration]_vars

\* The second track was uploaded when the first stood one tick after 0, and
\* the first was then given a negative start time.
C12_Witness ==
  /\ Len(tracks) = 2
  /\ tracks[1].buffer = MonoClip
  /\ tracks[1].startTime = 0
  /\ tracks[2].startTime = 1 + BufferDuration(MonoClip)

---------------------------------------------------------------------------
(* No clip is cut short (specification SpecMix).                           *)

\* The sum of the first n samples of a channel.
RECURSIVE SumOfSamples(_, _)
SumOfSamples(data, n) ==
  IF n = 0 THEN 0 ELSE SumOfSamples(data, n - 1) + data[n]

\* The sum over the first k tracks of all samples they have for output
\* channel c.
RECURSIVE SumOfSources(_, _, _)
SumOfSources(ts, c, k) ==
  IF k = 0 THEN 0
  ELSE SumOfSources(ts, c, k - 1)
         + SumOfSamples(ts[k].buffer.channels[SourceChannel(ts[k], c) + 1],
                        ts[k].buffer.length)

\* C13: for a non-empty track list (start times >= 0, duration = frames /
\* rate) the test startSample + i < outputData.length passes for every
\* source index i of every track, so the output ends at or after the last
\* sample of every track and every source sample is in the output (each
\* output channel sums to the sum of the source samples sent to it); a
\* single track at start 0 comes out sample for sample, a mono clip in both
\* channels, with as many frames as the clip has.
C13_NeverTruncates ==
  mixOutput # NULL /\ Len(mixInput) > 0 =>
    /\ \A k \in 1..Len(mixInput) :
         /\ mixInput[k].startTime >= 0
         /\ mixInput[k].duration * SAMPLE_RATE = mixInput[k].buffer.length * TimeDen
         /\ \A c \in 1..2 :
              \A i \in 0..(mixInput[k].buffer.length - 1) :
                 StartSample(mixInput[k]) + i < Len(mixOutput.channels[c])
         /\ mixOutput.length >= StartSample(mixInput[k]) + mixInput[k].buffer.length
    /\ \A c \in 0..1 :
         SumOfSamples(mixOutput.channels[c + 1], mixOutput.length)
           = SumOfSources(mixInput, c, Len(mixInput))
    /\ Len(mixInput) = 1 /\ mixInput[1].startTime = 0 =>
         LET b == mixInput[1].buffer
         IN  /\ mixOutput.length = b.length
             /\ mixOutput.channels[1] = b.channels[1]
             /\ mixOutput.channels[2] =
                  IF b.numberOfChannels > 1 THEN b.channels[2] ELSE b.channels[1]

\* The clip reaching furthest starts between two samples, after the start of
\* another clip, and the output ends one frame after its last sample.
C13_Witness ==
  /\ mixOutput # NULL
  /\ Len(mixInput) = 2
  /\ mixInput[1].startTime = 0
  /\ mixInput[2].startTime % TicksPerSample # 0
  /\ mixInput[2].buffer.length = 2
  /\ StartSample(mixInput[2]) >= 1
  /\ mixOutput.length = StartSample(mixInput[2]) + 2 + 1
  /\ mixOutput.channels[2][mixOutput.length - 1] # 0

=============================================================================
